---- MODULE Spec2Model ----
(***************************************************************************)
(* Model of src/utils/logger.ts: the logger factory winstonLogger and the  *)
(* Elasticsearch bootstrap checkElasticLoggingSetup.                       *)
(*                                                                         *)
(* The backend (policies, templates, indices) is the Elasticsearch cluster *)
(* the client talks to.  Every awaited client call is one action: the      *)
(* backend answers the call and the continuation of the async function     *)
(* runs up to the next await.  Each caller (a separate process) has at     *)
(* most one invocation in flight; invocations of different callers         *)
(* interleave at the awaits.                                               *)
(***************************************************************************)
EXTENDS Naturals, Sequences, FiniteSets

VARIABLES
    policies,        \* backend: ILM policies, records [name, phases]
    templates,       \* backend: index templates, records [name, ...]
    indices,         \* backend: names of the concrete indices
    clock,           \* days elapsed on the local calendar since FirstDay
    pc,              \* per caller: the await its invocation is suspended at
    templateExists,  \* per caller: local of line 120
    indexName,       \* per caller: local of line 157
    indexExists,     \* per caller: local of line 160
    ret,             \* per caller: value the promise resolved with
    calls,           \* per caller: the client calls answered in this invocation
    snap,            \* per caller: the backend and the day at the invocation
    prev,            \* per caller: result and calls of its previous invocation
    runs,            \* number of invocations made so far
    created,         \* names of the resources a create call has created
    faulted,         \* some call so far was rejected for a transient reason
    logger,          \* the handle returned by winstonLogger, or NoLogger
    consoleSink,     \* records written by the Console transport
    remoteSink,      \* records handed to the Elasticsearch transport
    emitted,         \* records the handle was asked to log
    args,            \* the name and level winstonLogger was called with
    date,            \* a Date whose calendar fields are being formatted
    factorySuffix,   \* indexSuffix as winstonLogger derives it from date
    setupName        \* indexName as checkElasticLoggingSetup derives it

backendVars == <<policies, templates, indices>>
histVars == <<prev, runs>>
invVars == <<pc, templateExists, indexName, indexExists, ret, calls, snap, prev,
             runs, created, faulted>>
loggerVars == <<logger, consoleSink, remoteSink, emitted, args>>
dateVars == <<date, factorySuffix, setupName>>
vars == <<policies, templates, indices, clock, pc, templateExists, indexName,
          indexExists, ret, calls, snap, prev, runs, created, faulted, logger,
          consoleSink, remoteSink, emitted, args, date, factorySuffix, setupName>>

(***************************************************************************)
(* Bounds                                                                  *)
(***************************************************************************)
NumCallers == 2
MaxRuns == 2
MaxTicks == 1
MaxRecords == 3

Callers == 1..NumCallers

(***************************************************************************)
(* Date formatting (lines 16-20 and 153-157)                               *)
(***************************************************************************)
\* a JS Date as its local calendar fields; month is 0-based as getMonth()
FirstDay == [fullYear |-> 2024, month |-> 2, date |-> 9]

\* the local calendar day k days after FirstDay
DayAt(k) == [FirstDay EXCEPT !.date = @ + k]

\* new Date() (lines 16 and 153)
Today == DayAt(clock)

DigitChars == <<"0", "1", "2", "3", "4", "5", "6", "7", "8", "9">>

RECURSIVE String(_)
String(n) ==
    IF n < 10 THEN <<DigitChars[n + 1]>>
    ELSE String(n \div 10) \o <<DigitChars[(n % 10) + 1]>>

RECURSIVE padStart(_, _, _)
padStart(s, targetLength, padString) ==
    IF Len(s) >= targetLength THEN s
    ELSE padStart(<<padString>> \o s, targetLength, padString)

indexSuffix(today) ==
    LET year == String(today.fullYear)
        month == padStart(String(today.month + 1), 2, "0")
        day == padStart(String(today.date), 2, "0")
    IN year \o <<".">> \o month \o <<".">> \o day

IndexNameOf(today) == <<"l", "o", "g", "s", "-">> \o indexSuffix(today)

\* lines 17-20 with the month index of getMonth() used as the month number
winstonIndexSuffixMonthIndex(today) ==
    LET year == String(today.fullYear)
        month == padStart(String(today.month), 2, "0")
        day == padStart(String(today.date), 2, "0")
    IN year \o <<".">> \o month \o <<".">> \o day

\* lines 16-20: winstonLogger derives its own indexSuffix (and never uses it)
winstonIndexSuffix(today) ==
    LET year == String(today.fullYear)
        month == padStart(String(today.month + 1), 2, "0")
        day == padStart(String(today.date), 2, "0")
    IN year \o <<".">> \o month \o <<".">> \o day

NoName == <<>>

\* the calendar fields a Date can report: getFullYear(), getMonth() (0-11)
\* and getDate()
Years == {1000, 1970, 2024, 9999}
Months == 0..11
DaysOfMonth == 1..31
Dates ==
    [fullYear : Years, month : Months, date : DaysOfMonth]

(***************************************************************************)
(* Resources the bootstrap creates                                         *)
(***************************************************************************)
\* variant of LogsPolicy whose delete phase starts with the cold phase
LogsPolicyEarlyDelete ==
    [name |-> "logs_policy",
     phases |->
        [hot |-> [min_age |-> "0ms", actions |-> {"rollover"}],
         warm |-> [min_age |-> "7d", actions |-> {"shrink", "forcemerge"}],
         cold |-> [min_age |-> "30d", actions |-> {}],
         delete |-> [min_age |-> "30d", actions |-> {"delete"}]]]

\* the body of putLifecycle, lines 77-115
LogsPolicy ==
    [name |-> "logs_policy",
     phases |->
        [hot |-> [min_age |-> "0ms", actions |-> {"rollover"}],
         warm |-> [min_age |-> "7d", actions |-> {"shrink", "forcemerge"}],
         cold |-> [min_age |-> "30d", actions |-> {}],
         delete |-> [min_age |-> "90d", actions |-> {"delete"}]]]

\* a policy of the same name that somebody else put into the backend
ForeignPolicy ==
    [name |-> "logs_policy",
     phases |->
        [hot |-> [min_age |-> "0ms", actions |-> {"rollover"}],
         warm |-> [min_age |-> "2d", actions |-> {"forcemerge"}],
         cold |-> [min_age |-> "7d", actions |-> {}],
         delete |-> [min_age |-> "14d", actions |-> {"delete"}]]]

\* the body of putIndexTemplate, lines 128-148
LogsTemplate ==
    [name |-> "logs_template",
     index_patterns |-> <<"logs-*">>,
     settings |-> [number_of_shards |-> 1, number_of_replicas |-> 1,
                   lifecycle_name |-> "logs_policy"],
     mappings |-> [timestamp |-> "date", message |-> "text",
                   level |-> "keyword", service |-> "keyword"]]

\* variants of the existence tests in which the backend never reports a hit
PolicyNeverFound(name) == FALSE
TemplateNeverFound(name) == FALSE

\* variant of IndexExists in which the backend reports every index as present
IndexAlwaysFound(name) == TRUE

PolicyExists(name) == \E r \in policies : r.name = name
TemplateExists(name) == \E r \in templates : r.name = name
IndexExists(name) == name \in indices

\* a put replaces whatever the backend holds under the same name
Put(store, r) == {x \in store : x.name # r.name} \cup {r}

Backend == [policies |-> policies, templates |-> templates, indices |-> indices]

EmptyBackend == [policies |-> {}, templates |-> {}, indices |-> {}]

(***************************************************************************)
(* checkElasticLoggingSetup (lines 58-173)                                 *)
(***************************************************************************)
Active(p) == pc[p] \notin {"idle", "done"}

\* the resource a create call names
ResourceOf(p, op) ==
    IF op = "putLifecycle" THEN <<"logs_policy">>
    ELSE IF op = "putIndexTemplate" THEN <<"logs_template">>
    ELSE indexName[p]

\* a call of invocation p is answered
Called(p, op, outcome) ==
    /\ calls' = [calls EXCEPT ![p] = Append(@, [op |-> op, outcome |-> outcome])]
    /\ faulted' = (faulted \/ outcome = "error")
    /\ created' = IF op \in {"putLifecycle", "putIndexTemplate", "create"}
                     /\ outcome = "ok"
                  THEN created \cup {ResourceOf(p, op)}
                  ELSE created

\* line 168
ReturnTrue(p) ==
    /\ pc' = [pc EXCEPT ![p] = "done"]
    /\ ret' = [ret EXCEPT ![p] = "true"]

\* variant of OuterCatch without the try/catch of lines 61 and 169: the
\* rejection reaches the caller
OuterCatchRethrows(p) ==
    /\ pc' = [pc EXCEPT ![p] = "done"]
    /\ ret' = [ret EXCEPT ![p] = "threw"]

\* lines 169-172: every error that leaves the try block resolves to false
OuterCatch(p) ==
    /\ pc' = [pc EXCEPT ![p] = "done"]
    /\ ret' = [ret EXCEPT ![p] = "false"]

\* variant of IssueExists that formats a date read once, at load time
IssueExistsStaleDate(p) ==
    /\ indexName' = [indexName EXCEPT ![p] = IndexNameOf(FirstDay)]
    /\ pc' = [pc EXCEPT ![p] = "exists"]

\* lines 153-160: the date is read and the existence check issued
IssueExists(p) ==
    /\ indexName' = [indexName EXCEPT ![p] = IndexNameOf(Today)]
    /\ pc' = [pc EXCEPT ![p] = "exists"]

\* lines 58-65: the caller invokes the function, which issues the health query
Start(p) ==
    /\ pc[p] \in {"idle", "done"}
    /\ runs < MaxRuns
    /\ runs' = runs + 1
    /\ prev' = [prev EXCEPT ![p] = [ret |-> ret[p], calls |-> calls[p],
                                    indexName |-> indexName[p]]]
    /\ pc' = [pc EXCEPT ![p] = "health"]
    /\ templateExists' = [templateExists EXCEPT ![p] = FALSE]
    /\ indexName' = [indexName EXCEPT ![p] = NoName]
    /\ indexExists' = [indexExists EXCEPT ![p] = FALSE]
    /\ ret' = [ret EXCEPT ![p] = "pending"]
    /\ calls' = [calls EXCEPT ![p] = <<>>]
    /\ snap' = [snap EXCEPT ![p] = [backend |-> Backend, clock |-> clock]]
    /\ UNCHANGED <<backendVars, clock, created, faulted, loggerVars, dateVars>>

\* lines 65-70: the health query resolves; getLifecycle is issued
Health(p) ==
    /\ pc[p] = "health"
    /\ Called(p, "health", "ok")
    /\ pc' = [pc EXCEPT ![p] = "getLifecycle"]
    /\ UNCHANGED <<backendVars, clock, templateExists, indexName, indexExists,
                   ret, snap, histVars,
                   loggerVars, dateVars>>

\* variant of HealthFail in which the health query has a catch of its own
HealthFailIgnored(p) ==
    /\ pc[p] = "health"
    /\ Called(p, "health", "error")
    /\ pc' = [pc EXCEPT ![p] = "getLifecycle"]
    /\ UNCHANGED <<backendVars, clock, templateExists, indexName, indexExists,
                   ret, snap, histVars,
                   loggerVars, dateVars>>

\* line 65 rejects: control leaves the try block
HealthFail(p) ==
    /\ pc[p] = "health"
    /\ Called(p, "health", "error")
    /\ OuterCatch(p)
    /\ UNCHANGED <<backendVars, clock, templateExists, indexName, indexExists,
                   snap, histVars,
                   loggerVars, dateVars>>

\* variant of GetLifecycle that issues putLifecycle whether or not the
\* policy was found
GetLifecycleAlwaysCreates(p) ==
    /\ pc[p] = "getLifecycle"
    /\ IF PolicyExists("logs_policy")
       THEN Called(p, "getLifecycle", "found")
       ELSE Called(p, "getLifecycle", "absent")
    /\ pc' = [pc EXCEPT ![p] = "putLifecycle"]
    /\ UNCHANGED <<backendVars, clock, templateExists, indexName, indexExists,
                   ret, snap, histVars,
                   loggerVars, dateVars>>

\* lines 69-77 and 120: getLifecycle resolves (found) or rejects with 404
GetLifecycle(p) ==
    /\ pc[p] = "getLifecycle"
    /\ IF PolicyExists("logs_policy")
       THEN /\ Called(p, "getLifecycle", "found")
            /\ pc' = [pc EXCEPT ![p] = "existsIndexTemplate"]
       ELSE /\ Called(p, "getLifecycle", "absent")
            /\ pc' = [pc EXCEPT ![p] = "putLifecycle"]
    /\ UNCHANGED <<backendVars, clock, templateExists, indexName, indexExists,
                   ret, snap, histVars,
                   loggerVars, dateVars>>

\* variant of GetLifecycleFail that tells a transient rejection from a 404
\* and gives up instead of creating the policy
GetLifecycleFailGivesUp(p) ==
    /\ pc[p] = "getLifecycle"
    /\ Called(p, "getLifecycle", "error")
    /\ OuterCatch(p)
    /\ UNCHANGED <<backendVars, clock, templateExists, indexName, indexExists,
                   snap, histVars,
                   loggerVars, dateVars>>

\* lines 74-77: any other rejection of getLifecycle enters the same catch
GetLifecycleFail(p) ==
    /\ pc[p] = "getLifecycle"
    /\ Called(p, "getLifecycle", "error")
    /\ pc' = [pc EXCEPT ![p] = "putLifecycle"]
    /\ UNCHANGED <<backendVars, clock, templateExists, indexName, indexExists,
                   ret, snap, histVars,
                   loggerVars, dateVars>>

\* lines 77-120: putLifecycle is answered.  A backend that already holds the
\* policy either replaces it or rejects the request.
PutLifecycle(p) ==
    /\ pc[p] = "putLifecycle"
    /\ \/ /\ policies' = Put(policies, LogsPolicy)
          /\ Called(p, "putLifecycle", "ok")
          /\ pc' = [pc EXCEPT ![p] = "existsIndexTemplate"]
          /\ UNCHANGED ret
       \/ /\ PolicyExists("logs_policy")
          /\ UNCHANGED policies
          /\ Called(p, "putLifecycle", "conflict")
          /\ OuterCatch(p)
    /\ UNCHANGED <<templates, indices, clock, templateExists, indexName,
                   indexExists, snap, histVars,
                   loggerVars, dateVars>>

\* variant of PutLifecycleFail that issues putLifecycle again after a
\* transient rejection
PutLifecycleFailRetries(p) ==
    /\ pc[p] = "putLifecycle"
    /\ \/ policies' = Put(policies, LogsPolicy)
       \/ UNCHANGED policies
    /\ Called(p, "putLifecycle", "error")
    /\ UNCHANGED <<pc, ret>>
    /\ UNCHANGED <<templates, indices, clock, templateExists, indexName,
                   indexExists, snap, histVars,
                   loggerVars, dateVars>>

\* line 77 rejects for a transient reason; the request may have been applied
PutLifecycleFail(p) ==
    /\ pc[p] = "putLifecycle"
    /\ \/ policies' = Put(policies, LogsPolicy)
       \/ UNCHANGED policies
    /\ Called(p, "putLifecycle", "error")
    /\ OuterCatch(p)
    /\ UNCHANGED <<templates, indices, clock, templateExists, indexName,
                   indexExists, snap, histVars,
                   loggerVars, dateVars>>

\* lines 120-128 and 153-160: existsIndexTemplate resolves
ExistsIndexTemplate(p) ==
    /\ pc[p] = "existsIndexTemplate"
    /\ templateExists' = [templateExists EXCEPT ![p] = TemplateExists("logs_template")]
    /\ IF TemplateExists("logs_template")
       THEN /\ Called(p, "existsIndexTemplate", "found")
            /\ IssueExists(p)
       ELSE /\ Called(p, "existsIndexTemplate", "absent")
            /\ pc' = [pc EXCEPT ![p] = "putIndexTemplate"]
            /\ UNCHANGED indexName
    /\ UNCHANGED <<backendVars, clock, indexExists, ret, snap, histVars,
                   loggerVars, dateVars>>

\* variant of ExistsIndexTemplateFail without the .catch of line 124: the
\* rejection reaches the outer catch
ExistsIndexTemplateFailUncaught(p) ==
    /\ pc[p] = "existsIndexTemplate"
    /\ Called(p, "existsIndexTemplate", "error")
    /\ OuterCatch(p)
    /\ UNCHANGED <<backendVars, clock, templateExists, indexName, indexExists,
                   snap, histVars,
                   loggerVars, dateVars>>

\* variant of ExistsIndexTemplateFail whose .catch answers true: a rejection
\* is taken for "the template exists"
ExistsIndexTemplateFailAsFound(p) ==
    /\ pc[p] = "existsIndexTemplate"
    /\ templateExists' = [templateExists EXCEPT ![p] = TRUE]
    /\ Called(p, "existsIndexTemplate", "error")
    /\ IssueExists(p)
    /\ UNCHANGED <<backendVars, clock, indexExists, ret, snap, histVars,
                   loggerVars, dateVars>>

\* line 124: a rejection of existsIndexTemplate is turned into false
ExistsIndexTemplateFail(p) ==
    /\ pc[p] = "existsIndexTemplate"
    /\ templateExists' = [templateExists EXCEPT ![p] = FALSE]
    /\ Called(p, "existsIndexTemplate", "error")
    /\ pc' = [pc EXCEPT ![p] = "putIndexTemplate"]
    /\ UNCHANGED <<backendVars, clock, indexName, indexExists, ret, snap, histVars,
                   loggerVars, dateVars>>

\* lines 128-160: putIndexTemplate is answered
PutIndexTemplate(p) ==
    /\ pc[p] = "putIndexTemplate"
    /\ \/ /\ templates' = Put(templates, LogsTemplate)
          /\ Called(p, "putIndexTemplate", "ok")
          /\ IssueExists(p)
          /\ UNCHANGED ret
       \/ /\ TemplateExists("logs_template")
          /\ UNCHANGED <<templates, indexName>>
          /\ Called(p, "putIndexTemplate", "conflict")
          /\ OuterCatch(p)
    /\ UNCHANGED <<policies, indices, clock, templateExists, indexExists, snap, histVars,
                   loggerVars, dateVars>>

\* line 128 rejects for a transient reason; the request may have been applied
PutIndexTemplateFail(p) ==
    /\ pc[p] = "putIndexTemplate"
    /\ \/ templates' = Put(templates, LogsTemplate)
       \/ UNCHANGED templates
    /\ Called(p, "putIndexTemplate", "error")
    /\ OuterCatch(p)
    /\ UNCHANGED <<policies, indices, clock, templateExists, indexName,
                   indexExists, snap, histVars,
                   loggerVars, dateVars>>

\* lines 160-168: indices.exists resolves
Exists(p) ==
    /\ pc[p] = "exists"
    /\ indexExists' = [indexExists EXCEPT ![p] = IndexExists(indexName[p])]
    /\ IF IndexExists(indexName[p])
       THEN /\ Called(p, "exists", "found")
            /\ ReturnTrue(p)
       ELSE /\ Called(p, "exists", "absent")
            /\ pc' = [pc EXCEPT ![p] = "create"]
            /\ UNCHANGED ret
    /\ UNCHANGED <<backendVars, clock, templateExists, indexName, snap, histVars,
                   loggerVars, dateVars>>

\* variant of ExistsFail that takes a rejection for "the index is absent",
\* as lines 74 and 124 do for the policy and the template
ExistsFailAsAbsent(p) ==
    /\ pc[p] = "exists"
    /\ Called(p, "exists", "error")
    /\ pc' = [pc EXCEPT ![p] = "create"]
    /\ UNCHANGED <<backendVars, clock, templateExists, indexName, indexExists,
                   ret, snap, histVars,
                   loggerVars, dateVars>>

\* line 160 rejects: nothing catches it before the outer catch
ExistsFail(p) ==
    /\ pc[p] = "exists"
    /\ Called(p, "exists", "error")
    /\ OuterCatch(p)
    /\ UNCHANGED <<backendVars, clock, templateExists, indexName, indexExists,
                   snap, histVars,
                   loggerVars, dateVars>>

\* lines 162-168: indices.create is answered; the backend rejects the
\* creation of an index that exists
Create(p) ==
    /\ pc[p] = "create"
    /\ IF ~IndexExists(indexName[p])
       THEN /\ indices' = indices \cup {indexName[p]}
            /\ Called(p, "create", "ok")
            /\ ReturnTrue(p)
       ELSE /\ UNCHANGED indices
            /\ Called(p, "create", "conflict")
            /\ OuterCatch(p)
    /\ UNCHANGED <<policies, templates, clock, templateExists, indexName,
                   indexExists, snap, histVars,
                   loggerVars, dateVars>>

\* line 162 rejects for a transient reason; the request may have been applied
CreateFail(p) ==
    /\ pc[p] = "create"
    /\ \/ indices' = indices \cup {indexName[p]}
       \/ UNCHANGED indices
    /\ Called(p, "create", "error")
    /\ OuterCatch(p)
    /\ UNCHANGED <<policies, templates, clock, templateExists, indexName,
                   indexExists, snap, histVars,
                   loggerVars, dateVars>>

\* the local calendar day changes (new Date() at lines 16 and 153)
Tick ==
    /\ clock < MaxTicks
    /\ clock' = clock + 1
    /\ UNCHANGED <<backendVars, invVars, loggerVars, dateVars>>

(***************************************************************************)
(* winstonLogger (lines 5-56)                                              *)
(***************************************************************************)
\* winston's npm severities, most severe first
levels == [error |-> 0, warn |-> 1, info |-> 2, http |-> 3, verbose |-> 4,
           debug |-> 5, silly |-> 6]

LevelNames == DOMAIN levels

\* what a caller passes as level: a severity, or nothing ("")
LevelInputs == LevelNames \cup {""}

Services == {"auth", "gateway"}

NoLogger == [service |-> "", level |-> "", console |-> "", elastic |-> ""]

\* variant of esTransportLevel that ignores the level it is given
esTransportLevelFixed(level) == "info"

\* line 24: the Elasticsearch transport's own level
esTransportLevel(level) == IF level = "" THEN "info" ELSE level

\* lines 23-50: the handle, with the level of the logger and of each transport
\* (the Console transport is given none)
\* createLogger without line 35: the logger itself has no level, so the
\* Console transport, which has none of its own, writes every record
createLoggerNoLevel(name, level) ==
    [service |-> name, level |-> "", console |-> "",
     elastic |-> esTransportLevel(level)]

createLogger(name, level) ==
    [service |-> name, level |-> level, console |-> "",
     elastic |-> esTransportLevel(level)]

\* a transport writes a record when its level, or else the logger's, admits
\* the record's severity; with neither set it writes every record
Accepts(transportLevel, parentLevel, severity) ==
    LET level == IF transportLevel # "" THEN transportLevel ELSE parentLevel
    IN level = "" \/ levels[level] >= levels[severity]

\* line 36 (defaultMeta) and lines 37-40: the record handed to the transports
Record(handle, severity, message) ==
    [level |-> severity, message |-> message, service |-> handle.service]

Deliver(sink, transportLevel, handle, info) ==
    IF Accepts(transportLevel, handle.level, info.level)
    THEN Append(sink, info)
    ELSE sink

\* logger.log: the record goes to both transports of lines 41-49
Log(handle, severity, message) ==
    LET info == Record(handle, severity, message)
    IN /\ emitted' = Append(emitted, info)
       /\ consoleSink' = Deliver(consoleSink, handle.console, handle, info)
       /\ remoteSink' = Deliver(remoteSink, handle.elastic, handle, info)

\* line 53
InitMessage(name) == <<"Logger initialized for service: ", name>>

\* lines 5-56: the factory builds the handle, logs once and returns it
winstonLogger(name, level) ==
    /\ logger = NoLogger
    /\ logger' = createLogger(name, level)
    /\ args' = [name |-> name, level |-> level]
    /\ Log(createLogger(name, level), "info", InitMessage(name))
    /\ UNCHANGED <<backendVars, clock, invVars, dateVars>>

\* the caller logs through the returned handle
LogCall(severity) ==
    /\ logger # NoLogger
    /\ Len(emitted) < MaxRecords
    /\ Log(logger, severity, <<"message">>)
    /\ UNCHANGED <<logger, args, backendVars, clock, invVars, dateVars>>

(***************************************************************************)
(* Specifications                                                          *)
(***************************************************************************)
InitInvocations ==
    /\ clock = 0
    /\ pc = [p \in Callers |-> "idle"]
    /\ templateExists = [p \in Callers |-> FALSE]
    /\ indexName = [p \in Callers |-> NoName]
    /\ indexExists = [p \in Callers |-> FALSE]
    /\ ret = [p \in Callers |-> "pending"]
    /\ calls = [p \in Callers |-> <<>>]
    /\ snap = [p \in Callers |-> [backend |-> EmptyBackend, clock |-> 0]]
    /\ prev = [p \in Callers |-> [ret |-> "pending", calls |-> <<>>,
                                  indexName |-> NoName]]
    /\ runs = 0
    /\ created = {}
    /\ faulted = FALSE

InitLogger ==
    /\ logger = NoLogger
    /\ consoleSink = <<>>
    /\ remoteSink = <<>>
    /\ emitted = <<>>
    /\ args = [name |-> "", level |-> ""]

InitDate ==
    /\ date = FirstDay
    /\ factorySuffix = NoName
    /\ setupName = NoName

\* the backend is whatever earlier runs or an operator left in it
Init ==
    /\ policies \in {{}, {LogsPolicy}, {ForeignPolicy}}
    /\ templates \in {{}, {LogsTemplate}}
    /\ indices \in {{}, {IndexNameOf(FirstDay)}}
    /\ InitInvocations
    /\ InitLogger
    /\ InitDate

Next ==
    \/ \E p \in Callers :
        \/ Start(p)
        \/ Health(p)
        \/ HealthFail(p)
        \/ GetLifecycle(p)
        \/ GetLifecycleFail(p)
        \/ PutLifecycle(p)
        \/ PutLifecycleFail(p)
        \/ ExistsIndexTemplate(p)
        \/ ExistsIndexTemplateFail(p)
        \/ PutIndexTemplate(p)
        \/ PutIndexTemplateFail(p)
        \/ Exists(p)
        \/ ExistsFail(p)
        \/ Create(p)
        \/ CreateFail(p)
    \/ Tick

Spec == Init /\ [][Next]_vars

(***************************************************************************)
(* A single caller that awaits each invocation before it makes the next.   *)
(***************************************************************************)
NextSeq ==
    \/ \E p \in {1} :
        \/ Start(p)
        \/ Health(p)
        \/ HealthFail(p)
        \/ GetLifecycle(p)
        \/ GetLifecycleFail(p)
        \/ PutLifecycle(p)
        \/ PutLifecycleFail(p)
        \/ ExistsIndexTemplate(p)
        \/ ExistsIndexTemplateFail(p)
        \/ PutIndexTemplate(p)
        \/ PutIndexTemplateFail(p)
        \/ Exists(p)
        \/ ExistsFail(p)
        \/ Create(p)
        \/ CreateFail(p)
    \/ Tick

SeqSpec == Init /\ [][NextSeq]_vars

(***************************************************************************)
(* Concurrent callers on one calendar day against an empty backend that    *)
(* answers every call: no call is rejected for a transient reason, and     *)
(* every call that was issued is eventually answered.                      *)
(***************************************************************************)
InitEmpty ==
    /\ policies = {}
    /\ templates = {}
    /\ indices = {}
    /\ InitInvocations
    /\ InitLogger
    /\ InitDate

Answer(p) ==
    \/ Health(p)
    \/ GetLifecycle(p)
    \/ PutLifecycle(p)
    \/ ExistsIndexTemplate(p)
    \/ PutIndexTemplate(p)
    \/ Exists(p)
    \/ Create(p)

NextFair == \E p \in Callers : Start(p) \/ Answer(p)

FairSpec ==
    /\ InitEmpty
    /\ [][NextFair]_vars
    /\ \A p \in Callers : WF_vars(Answer(p))

(***************************************************************************)
(* The logger factory and the callers of its handle.                       *)
(***************************************************************************)
NextLogger ==
    \/ \E name \in Services, level \in LevelInputs : winstonLogger(name, level)
    \/ \E severity \in LevelNames : LogCall(severity)

LoggerSpec == InitEmpty /\ [][NextLogger]_vars

(***************************************************************************)
(* The two date derivations as functions of the Date they read: the one of *)
(* winstonLogger (lines 16-20) and the one of checkElasticLoggingSetup     *)
(* (lines 153-157), each applied to the same Date.                         *)
(***************************************************************************)
InitDates ==
    /\ policies = {}
    /\ templates = {}
    /\ indices = {}
    /\ InitInvocations
    /\ InitLogger
    /\ date \in Dates
    /\ factorySuffix = NoName
    /\ setupName = NoName

FormatInLogger ==
    /\ factorySuffix = NoName
    /\ factorySuffix' = winstonIndexSuffix(date)
    /\ UNCHANGED <<date, setupName, backendVars, clock, invVars, loggerVars>>

FormatInSetup ==
    /\ setupName = NoName
    /\ setupName' = IndexNameOf(date)
    /\ UNCHANGED <<date, factorySuffix, backendVars, clock, invVars,
                   loggerVars>>

NextDate == FormatInLogger \/ FormatInSetup

DateSpec == InitDates /\ [][NextDate]_vars

(***************************************************************************)
(* Vocabulary of the properties                                            *)
(***************************************************************************)
Ops(log) == [i \in 1..Len(log) |-> log[i].op]

IsCreate(c) == c.op \in {"putLifecycle", "putIndexTemplate", "create"}

\* the create calls of a log, in order
CreateOps(log) == Ops(SelectSeq(log, IsCreate))

\* no call of the log was rejected for a transient reason
FaultFree(log) == \A i \in 1..Len(log) : log[i].outcome # "error"

\* the calls whose failure nothing but the outer catch handles
Uncaught(c) ==
    /\ c.op \in {"health", "putLifecycle", "putIndexTemplate", "exists", "create"}
    /\ c.outcome \in {"error", "conflict"}

HasPolicy(b) == \E r \in b.policies : r.name = "logs_policy"
HasTemplate(b) == \E r \in b.templates : r.name = "logs_template"

\* the step in which invocation p returns
Returns(p) == pc[p] # "done" /\ pc'[p] = "done"

AnyAnswer(p) ==
    \/ Health(p) \/ HealthFail(p)
    \/ GetLifecycle(p) \/ GetLifecycleFail(p)
    \/ PutLifecycle(p) \/ PutLifecycleFail(p)
    \/ ExistsIndexTemplate(p) \/ ExistsIndexTemplateFail(p)
    \/ PutIndexTemplate(p) \/ PutIndexTemplateFail(p)
    \/ Exists(p) \/ ExistsFail(p)
    \/ Create(p) \/ CreateFail(p)

(***************************************************************************)
(* C1: checkElasticLoggingSetup never throws.  Whatever calls succeed or   *)
(* fail, an invocation in flight can always take its next step, issues at  *)
(* most seven calls, and ends with a boolean: false exactly when the       *)
(* health query, a create or the index existence check failed (and then at *)
(* once), true otherwise.                                                  *)
(***************************************************************************)
C1_NeverThrows ==
    \A p \in Callers :
        /\ ret[p] \in {"pending", "true", "false"}
        /\ (pc[p] = "done") <=> (ret[p] # "pending")
        /\ (ret[p] = "false") <=>
               (\E i \in 1..Len(calls[p]) : Uncaught(calls[p][i]))
        /\ Len(calls[p]) <= 7
        /\ Active(p) => ENABLED AnyAnswer(p)

C1_Witness ==
    \E p, q \in Callers :
        /\ pc[p] = "done" /\ ret[p] = "false"
        /\ calls[p][Len(calls[p])] = [op |-> "putIndexTemplate", outcome |-> "error"]
        /\ pc[q] = "done" /\ ret[q] = "true"
        /\ \E i \in 1..Len(calls[q]) :
               calls[q][i] = [op |-> "existsIndexTemplate", outcome |-> "error"]

(***************************************************************************)
(* C2: idempotence.  An invocation without faults and without concurrent   *)
(* callers that finds logs_policy, logs_template and the index of its day  *)
(* in the backend returns true, issues the health query and the three      *)
(* existence checks and nothing else, and leaves the backend as it found   *)
(* it; so does the invocation after it.                                    *)
(***************************************************************************)
Configured(b, name) == HasPolicy(b) /\ HasTemplate(b) /\ name \in b.indices

\* C2: a fault-free invocation on a configured backend only checks, and returns true
C2_Idempotent ==
    [][\A p \in Callers :
          (/\ Returns(p)
           /\ FaultFree(calls'[p])
           /\ Configured(snap[p].backend, indexName'[p]))
          => /\ ret'[p] = "true"
             /\ Ops(calls'[p]) =
                    <<"health", "getLifecycle", "existsIndexTemplate", "exists">>
             /\ Backend' = snap[p].backend]_vars

C2_Witness ==
    \E p \in Callers :
        /\ pc[p] = "done" /\ ret[p] = "true" /\ prev[p].ret = "true"
        /\ Configured(snap[p].backend, indexName[p])
        /\ Ops(calls[p]) = <<"health", "getLifecycle", "existsIndexTemplate", "exists">>
        /\ Ops(prev[p].calls) = Ops(calls[p])
        /\ FaultFree(calls[p]) /\ FaultFree(prev[p].calls)
        /\ Backend = snap[p].backend

(***************************************************************************)
(* C3: first run.  An invocation without faults and without concurrent     *)
(* callers that starts on an empty backend returns true, issues each of    *)
(* the three creates once, and leaves exactly one policy logs_policy with  *)
(* phases hot/warm/cold/delete at 0ms/7d/30d/90d, exactly one template     *)
(* logs_template for logs-* bound to logs_policy, and exactly one index,   *)
(* named after the day it read.                                            *)
(***************************************************************************)
MinAges(r) == [ph \in DOMAIN r.phases |-> r.phases[ph].min_age]

DaysSince(k) == {IndexNameOf(DayAt(d)) : d \in k..clock}

\* C3: a fault-free invocation on an empty backend creates each resource once
C3_FirstRun ==
    [][\A p \in Callers :
          (/\ Returns(p)
           /\ FaultFree(calls'[p])
           /\ snap[p].backend = EmptyBackend)
          => /\ ret'[p] = "true"
             /\ CreateOps(calls'[p]) = <<"putLifecycle", "putIndexTemplate", "create">>
             /\ Cardinality(policies') = 1
             /\ \A r \in policies' :
                    /\ r.name = "logs_policy"
                    /\ MinAges(r) = [hot |-> "0ms", warm |-> "7d",
                                     cold |-> "30d", delete |-> "90d"]
             /\ Cardinality(templates') = 1
             /\ \A t \in templates' :
                    /\ t.name = "logs_template"
                    /\ t.index_patterns = <<"logs-*">>
                    /\ t.settings.lifecycle_name = "logs_policy"
             /\ indices' = {indexName'[p]}
             /\ indexName'[p] \in DaysSince(snap[p].clock)
             /\ (clock' = 0 =>
                    indexName'[p] = <<"l", "o", "g", "s", "-", "2", "0", "2", "4",
                                      ".", "0", "3", ".", "0", "9">>)]_vars

C3_Witness ==
    \E p \in Callers :
        /\ pc[p] = "done" /\ ret[p] = "true"
        /\ snap[p].backend = EmptyBackend
        /\ CreateOps(calls[p]) = <<"putLifecycle", "putIndexTemplate", "create">>
        /\ policies = {LogsPolicy} /\ templates = {LogsTemplate}
        /\ indices = {IndexNameOf(Today)}

(***************************************************************************)
(* C4: a failed health query is the only call of its invocation: the step  *)
(* that answers it returns false and leaves the backend untouched, and the *)
(* invocation issues no call after it.                                     *)
(***************************************************************************)
HealthFailed(log) ==
    Len(log) >= 1 /\ log[1] = [op |-> "health", outcome |-> "error"]

\* C4: after a failed health query no other call is issued and false is returned
C4_HealthFailureStops ==
    [][\A p \in Callers :
          (calls'[p] # calls[p] /\ HealthFailed(calls'[p]))
          => /\ calls[p] = <<>>
             /\ pc'[p] = "done"
             /\ ret'[p] = "false"
             /\ Backend' = Backend]_vars

C4_Witness ==
    \E p \in Callers :
        /\ pc[p] = "done" /\ ret[p] = "false"
        /\ calls[p] = <<[op |-> "health", outcome |-> "error"]>>
        /\ Backend = snap[p].backend
        /\ ~HasPolicy(Backend)

(***************************************************************************)
(* C5: putLifecycle for logs_policy is answered only by a backend that     *)
(* does not hold logs_policy (the existing policy is never overwritten).   *)
(***************************************************************************)
C5_NeverOverwrites ==
    [][\A p \in Callers :
          (pc[p] = "putLifecycle" /\ calls'[p] # calls[p])
          => ~PolicyExists("logs_policy")]_vars

(***************************************************************************)
(* C6: a getLifecycle that fails for a transient reason is followed by     *)
(* putLifecycle, whether or not the policy exists; when the backend        *)
(* rejects that put because the policy exists, the invocation returns      *)
(* false at once, without a template or index call.                        *)
(***************************************************************************)
FetchFailed(log) ==
    Len(log) >= 2 /\ log[2] = [op |-> "getLifecycle", outcome |-> "error"]

\* C6: a failed policy fetch leads to putLifecycle; its conflict to false
C6_AmbiguousError ==
    \A p \in Callers :
        FetchFailed(calls[p]) =>
            /\ \/ Len(calls[p]) = 2 /\ pc[p] = "putLifecycle"
               \/ Len(calls[p]) >= 3 /\ calls[p][3].op = "putLifecycle"
            /\ (Len(calls[p]) >= 3 /\ calls[p][3].outcome = "conflict")
               => /\ Len(calls[p]) = 3
                  /\ pc[p] = "done"
                  /\ ret[p] = "false"

C6_Witness ==
    \E p \in Callers :
        /\ Ops(calls[p]) = <<"health", "getLifecycle", "putLifecycle">>
        /\ FetchFailed(calls[p])
        /\ calls[p][3].outcome = "conflict"
        /\ ret[p] = "false"
        /\ Configured(snap[p].backend, IndexNameOf(Today))
        /\ Backend = snap[p].backend

(***************************************************************************)
(* C7: convergence of concurrent callers.  On one calendar day, against an *)
(* initially empty backend that answers every call, every invocation       *)
(* returns; and whenever no invocation is in flight and at least one was   *)
(* made, the backend holds exactly one logs_policy, one logs_template and  *)
(* one index, the one of that day, and some caller's invocation returned   *)
(* true.                                                                   *)
(***************************************************************************)
Quiescent == runs >= 1 /\ \A p \in Callers : ~Active(p)

Converged ==
    /\ Cardinality(policies) = 1 /\ HasPolicy(Backend)
    /\ Cardinality(templates) = 1 /\ HasTemplate(Backend)
    /\ indices = {IndexNameOf(Today)}

\* C7: every invocation returns, and quiescent states are converged
C7_Converges ==
    /\ \A p \in Callers : (Active(p) ~> pc[p] = "done")
    /\ [](Quiescent => (Converged /\ \E p \in Callers : ret[p] = "true"))

C7_Witness ==
    \E p, q \in Callers :
        /\ Quiescent /\ Converged
        /\ ret[p] = "true" /\ ret[q] = "false"
        /\ calls[q][Len(calls[q])] = [op |-> "create", outcome |-> "conflict"]
        /\ calls[p][Len(calls[p])] = [op |-> "create", outcome |-> "ok"]

(***************************************************************************)
(* C8: retry after failure.  The invocation a caller makes after one that  *)
(* returned false, if no call of it fails, returns true, issues a create   *)
(* exactly for the resources missing when it started (none of them one     *)
(* the failed invocation had created), and leaves exactly one logs_policy, *)
(* one logs_template and the index of its day.                             *)
(***************************************************************************)
Range(f) == {f[i] : i \in DOMAIN f}

CreatedOk(log, op) ==
    \E i \in 1..Len(log) : log[i] = [op |-> op, outcome |-> "ok"]

\* C8: the fault-free retry returns true and creates only what was missing
C8_RetryAfterFailure ==
    [][\A q \in Callers :
          (/\ Returns(q)
           /\ FaultFree(calls'[q])
           /\ prev[q].ret = "false")
          => LET creates == Range(CreateOps(calls'[q]))
                 before == snap[q].backend
             IN /\ ret'[q] = "true"
                /\ ("putLifecycle" \in creates) <=> ~HasPolicy(before)
                /\ ("putIndexTemplate" \in creates) <=> ~HasTemplate(before)
                /\ ("create" \in creates) <=> (indexName'[q] \notin before.indices)
                /\ CreatedOk(prev[q].calls, "putLifecycle")
                       => "putLifecycle" \notin creates
                /\ CreatedOk(prev[q].calls, "putIndexTemplate")
                       => "putIndexTemplate" \notin creates
                /\ (/\ CreatedOk(prev[q].calls, "create")
                    /\ prev[q].indexName = indexName'[q])
                       => "create" \notin creates
                /\ Cardinality({r \in policies' : r.name = "logs_policy"}) = 1
                /\ Cardinality({t \in templates' : t.name = "logs_template"}) = 1
                /\ indexName'[q] \in indices'
                /\ indexName'[q] \in DaysSince(snap[q].clock)]_vars

C8_Witness ==
    \E q \in Callers :
        /\ pc[q] = "done" /\ ret[q] = "true" /\ prev[q].ret = "false"
        /\ FaultFree(calls[q])
        /\ CreatedOk(prev[q].calls, "putLifecycle")
        /\ prev[q].calls[Len(prev[q].calls)] =
               [op |-> "putIndexTemplate", outcome |-> "error"]
        /\ CreateOps(calls[q]) = <<"putIndexTemplate", "create">>
        /\ snap[q].backend.templates = {}

(***************************************************************************)
(* C9: day change.  An invocation without faults and without concurrent    *)
(* callers that finds logs_policy and logs_template but no index for its   *)
(* day issues exactly one create, for logs-<that day>, and leaves policy   *)
(* and template as they were; and as long as no call has failed, no        *)
(* resource name is created twice.                                         *)
(***************************************************************************)
NoIndexFrom(b, k) ==
    \A d \in k..MaxTicks : IndexNameOf(DayAt(d)) \notin b.indices

\* C9: on a new day only the index is created; no name is created twice
C9_DayChange ==
    [][/\ \A q \in Callers :
            (/\ Returns(q)
             /\ FaultFree(calls'[q])
             /\ HasPolicy(snap[q].backend)
             /\ HasTemplate(snap[q].backend)
             /\ NoIndexFrom(snap[q].backend, snap[q].clock))
            => /\ ret'[q] = "true"
               /\ CreateOps(calls'[q]) = <<"create">>
               /\ indexName'[q] \in DaysSince(snap[q].clock)
               /\ indices' = snap[q].backend.indices \cup {indexName'[q]}
               /\ policies' = snap[q].backend.policies
               /\ templates' = snap[q].backend.templates
       /\ \A q \in Callers :
            (/\ calls'[q] # calls[q]
             /\ Len(calls'[q]) > 0
             /\ IsCreate(calls'[q][Len(calls'[q])])
             /\ calls'[q][Len(calls'[q])].outcome = "ok"
             /\ ~faulted')
            => ResourceOf(q, calls'[q][Len(calls'[q])].op) \notin created]_vars

C9_Witness ==
    \E q \in Callers :
        /\ pc[q] = "done" /\ ret[q] = "true" /\ ~faulted
        /\ prev[q].ret = "true"
        /\ CreateOps(prev[q].calls) = <<"putLifecycle", "putIndexTemplate", "create">>
        /\ prev[q].indexName = IndexNameOf(DayAt(0))
        /\ snap[q].clock = 1
        /\ CreateOps(calls[q]) = <<"create">>
        /\ indexName[q] = IndexNameOf(DayAt(1))
        /\ indices = {IndexNameOf(DayAt(0)), IndexNameOf(DayAt(1))}

(***************************************************************************)
(* C10: constructing the logger logs 'Logger initialized for service:      *)
(* <name>' once, at severity info.  Each sink receives that record once    *)
(* when the level given admits info (info, http, verbose, debug, silly, or *)
(* none given) and not at all when the level given is error or warn.       *)
(***************************************************************************)
Count(seq, x) == Cardinality({i \in 1..Len(seq) : seq[i] = x})

InitRecord ==
    [level |-> "info", message |-> InitMessage(logger.service),
     service |-> logger.service]

\* C10 as claimed: whatever the level, each sink receives the record once
C10_AlwaysInitRecord ==
    logger # NoLogger =>
        /\ Count(consoleSink, InitRecord) = 1
        /\ Count(remoteSink, InitRecord) = 1

\* C10, as the code has it: the record is logged once and reaches a sink
\* exactly when the level given admits info
C10_InitRecordIfAdmitted ==
    logger # NoLogger =>
        LET expected == IF logger.level \in {"error", "warn"} THEN 0 ELSE 1
        IN /\ Len(emitted) >= 1 /\ emitted[1] = InitRecord
           /\ Count(emitted, InitRecord) = 1
           /\ Count(consoleSink, InitRecord) = expected
           /\ Count(remoteSink, InitRecord) = expected

C10_Witness ==
    /\ logger # NoLogger /\ logger.level = "warn"
    /\ emitted[1] = InitRecord
    /\ Len(consoleSink) >= 1 /\ Len(remoteSink) >= 1
    /\ Count(consoleSink, InitRecord) = 0 /\ Count(remoteSink, InitRecord) = 0

(***************************************************************************)
(* C11: every record the handle delivers to a sink is tagged with the      *)
(* service name the handle was created for, and a record less severe than  *)
(* the level the handle was created with reaches neither sink.  With no    *)
(* level given there is no minimum to speak of on the console; the remote  *)
(* sink then falls back to info (line 24).                                 *)
(***************************************************************************)
Delivered == {consoleSink[i] : i \in 1..Len(consoleSink)}
                 \cup {remoteSink[i] : i \in 1..Len(remoteSink)}

LessSevere(severity, minLevel) == levels[severity] > levels[minLevel]

\* C11: delivered records carry the service name, and none is below the level
C11_TaggedAndFiltered ==
    logger # NoLogger =>
        /\ \A info \in Delivered : info.service = args.name
        /\ args.level \in LevelNames =>
               \A info \in Delivered : ~LessSevere(info.level, args.level)
        /\ args.level = "" =>
               \A i \in 1..Len(remoteSink) :
                   ~LessSevere(remoteSink[i].level, "info")

C11_Witness ==
    /\ args = [name |-> "auth", level |-> "warn"]
    /\ Len(emitted) = 3
    /\ \E i \in 1..3 : emitted[i].level = "debug"
    /\ consoleSink = <<[level |-> "error", message |-> <<"message">>,
                        service |-> "auth"]>>
    /\ remoteSink = consoleSink

(***************************************************************************)
(* C12: for every calendar date the suffix is the four digits of the year, *)
(* the two digits of the month number and the two digits of the day,       *)
(* joined by periods; 5 March 2024 gives 2024.03.05 and logs-2024.03.05;   *)
(* winstonLogger and checkElasticLoggingSetup derive the same suffix.      *)
(***************************************************************************)
DigitValue(c) == CHOOSE n \in 0..9 : DigitChars[n + 1] = c

IsDigit(c) == \E n \in 0..9 : DigitChars[n + 1] = c

RECURSIVE Number(_)
Number(s) ==
    IF s = <<>> THEN 0
    ELSE 10 * Number(SubSeq(s, 1, Len(s) - 1)) + DigitValue(s[Len(s)])

\* s is YYYY.MM.DD for the calendar date d (d.month counts from 0)
IsSuffixOf(s, d) ==
    /\ Len(s) = 10
    /\ s[5] = "." /\ s[8] = "."
    /\ \A i \in {1, 2, 3, 4, 6, 7, 9, 10} : IsDigit(s[i])
    /\ Number(SubSeq(s, 1, 4)) = d.fullYear
    /\ Number(SubSeq(s, 6, 7)) = d.month + 1
    /\ Number(SubSeq(s, 9, 10)) = d.date

LogsPrefix == <<"l", "o", "g", "s", "-">>

FifthOfMarch2024 == [fullYear |-> 2024, month |-> 2, date |-> 5]

\* C12: both derivations give the zero-padded YYYY.MM.DD of the date
C12_SuffixFormat ==
    /\ factorySuffix # NoName =>
           /\ IsSuffixOf(factorySuffix, date)
           /\ date = FifthOfMarch2024 =>
                  factorySuffix
                      = <<"2", "0", "2", "4", ".", "0", "3", ".", "0", "5">>
    /\ setupName # NoName =>
           /\ Len(setupName) = 15
           /\ SubSeq(setupName, 1, 5) = LogsPrefix
           /\ IsSuffixOf(SubSeq(setupName, 6, 15), date)
           /\ date = FifthOfMarch2024 =>
                  setupName
                      = <<"l", "o", "g", "s", "-", "2", "0", "2", "4", ".",
                          "0", "3", ".", "0", "5">>
    /\ factorySuffix # NoName /\ setupName # NoName =>
           setupName = LogsPrefix \o factorySuffix

C12_Witness ==
    /\ date = FifthOfMarch2024
    /\ factorySuffix = <<"2", "0", "2", "4", ".", "0", "3", ".", "0", "5">>
    /\ setupName = LogsPrefix \o factorySuffix

(***************************************************************************)
(* C13: two invocations can both find a resource absent and both issue its *)
(* create; the one whose create the backend rejects returns false although *)
(* the backend ends up configured (the witness).  In a run without         *)
(* transient faults that is the only way to return false: the last call is *)
(* a create rejected as a conflict, issued after this invocation's own     *)
(* check found the resource absent, for a resource that was absent when    *)
(* the invocation started, that this invocation did not create and that    *)
(* some invocation did.                                                    *)
(***************************************************************************)
CheckOf(op) ==
    IF op = "putLifecycle" THEN "getLifecycle"
    ELSE IF op = "putIndexTemplate" THEN "existsIndexTemplate"
    ELSE "exists"

\* backend b holds the resource that call op of invocation p creates
Holds(b, p, op) ==
    IF op = "putLifecycle" THEN HasPolicy(b)
    ELSE IF op = "putIndexTemplate" THEN HasTemplate(b)
    ELSE indexName[p] \in b.indices

LostRace(p) ==
    LET n == Len(calls[p])
    IN /\ n >= 2
       /\ IsCreate(calls[p][n]) /\ calls[p][n].outcome = "conflict"
       /\ calls[p][n - 1]
              = [op |-> CheckOf(calls[p][n].op), outcome |-> "absent"]
       /\ ~Holds(snap[p].backend, p, calls[p][n].op)
       /\ ~CreatedOk(calls[p], calls[p][n].op)
       /\ ResourceOf(p, calls[p][n].op) \in created
       /\ Holds(Backend, p, calls[p][n].op)

\* C13: without faults an invocation returns false only by losing a race
C13_FalseOnlyByLostRace ==
    \A p \in Callers : ret[p] = "false" => LostRace(p)

C13_Witness ==
    \E p, q \in Callers :
        /\ Quiescent /\ Converged
        /\ ret[p] = "true" /\ ret[q] = "false" /\ LostRace(q)
        /\ calls[q][Len(calls[q])].op = "putLifecycle"
        /\ calls[p][2] = [op |-> "getLifecycle", outcome |-> "absent"]
        /\ calls[p][3] = [op |-> "putLifecycle", outcome |-> "ok"]

(***************************************************************************)
(* C14: within one invocation the calls are issued in the order health,    *)
(* getLifecycle, [putLifecycle], existsIndexTemplate, [putIndexTemplate],  *)
(* exists, [create]; only the bracketed ones may be left out; none is      *)
(* issued twice; and a rejected health, put, exists or create is the last  *)
(* call of the invocation.                                                 *)
(***************************************************************************)
CallOrder ==
    <<"health", "getLifecycle", "putLifecycle", "existsIndexTemplate",
      "putIndexTemplate", "exists", "create">>

Rank(op) == CHOOSE i \in 1..Len(CallOrder) : CallOrder[i] = op

Checks == {"health", "getLifecycle", "existsIndexTemplate", "exists"}

\* the call that follows a call of rank r is later in CallOrder, and no
\* check lies between the two
Follows(r, op) ==
    /\ r < Rank(op)
    /\ \A i \in (r + 1)..(Rank(op) - 1) : CallOrder[i] \notin Checks

InCallOrder(log) ==
    /\ \A i \in 1..Len(log) :
           Follows(IF i = 1 THEN 0 ELSE Rank(log[i - 1].op), log[i].op)
    /\ \A i \in 1..Len(log) : Uncaught(log[i]) => i = Len(log)

\* C14: calls follow the fixed order, none twice, none after a failure
C14_CallOrder ==
    \A p \in Callers :
        /\ InCallOrder(calls[p])
        /\ InCallOrder(prev[p].calls)
        /\ Len(calls[p]) >= 1 /\ Uncaught(calls[p][Len(calls[p])])
               => pc[p] = "done"
        /\ pc[p] \notin {"idle", "done", "health"}
               => /\ Len(calls[p]) >= 1
                  /\ Follows(Rank(calls[p][Len(calls[p])].op), pc[p])

C14_Witness ==
    /\ Ops(prev[1].calls) = CallOrder
    /\ Ops(calls[1])
           = <<"health", "getLifecycle", "existsIndexTemplate", "exists">>
    /\ calls[1][4].outcome = "error"
    /\ pc[1] = "done"

(***************************************************************************)
(* C15: a rejected existsIndexTemplate counts as "the template is absent": *)
(* the next call is putIndexTemplate, and when that succeeds the           *)
(* invocation goes on to the exists call of the daily index and can return *)
(* true; the rejected check is never the call an invocation ends on.       *)
(***************************************************************************)
TemplateCheckFailed(c) == c = [op |-> "existsIndexTemplate", outcome |-> "error"]

\* log is the call log of an invocation that now stands at pcNow
FailedCheckCreates(log, pcNow, retNow) ==
    \A i \in 1..Len(log) :
        TemplateCheckFailed(log[i]) =>
            IF i = Len(log)
            THEN pcNow = "putIndexTemplate" /\ retNow = "pending"
            ELSE /\ log[i + 1].op = "putIndexTemplate"
                 /\ log[i + 1].outcome = "ok" =>
                        IF i + 1 = Len(log)
                        THEN pcNow = "exists" /\ retNow = "pending"
                        ELSE log[i + 2].op = "exists"
                 /\ retNow = "false" => Uncaught(log[Len(log)])

\* C15: a failed template check leads to putIndexTemplate, not to false
C15_TemplateCheckFailureIsAbsence ==
    \A p \in Callers :
        /\ FailedCheckCreates(calls[p], pc[p], ret[p])
        /\ FailedCheckCreates(prev[p].calls, "done", prev[p].ret)

C15_Witness ==
    /\ ret[1] = "true"
    /\ snap[1].backend.templates = {}
    /\ templates = {LogsTemplate}
    /\ \E i \in 1..Len(calls[1]) :
           /\ TemplateCheckFailed(calls[1][i])
           /\ calls[1][i + 1] = [op |-> "putIndexTemplate", outcome |-> "ok"]
    /\ FaultFree(SelectSeq(calls[1], LAMBDA c : ~TemplateCheckFailed(c)))

(***************************************************************************)
(* C16: a rejected indices.exists is not taken for absence: the invocation *)
(* returns false in that very step, issues no create and no other call,    *)
(* and leaves the backend as it is, so a policy and a template it created  *)
(* earlier are still there.                                                *)
(***************************************************************************)
IndexCheckFailed(c) == c = [op |-> "exists", outcome |-> "error"]

\* the step in which invocation p gets the answer c to a call
Answered(p, c) == calls'[p] = Append(calls[p], c)

\* C16: a failed index check returns false, creates nothing, undoes nothing
C16_IndexCheckFailureReturnsFalse ==
    [][\A p \in Callers :
          /\ Answered(p, [op |-> "exists", outcome |-> "error"]) =>
                 /\ pc'[p] = "done" /\ ret'[p] = "false"
                 /\ Backend' = Backend
                 /\ CreatedOk(calls'[p], "putLifecycle") => HasPolicy(Backend')
                 /\ CreatedOk(calls'[p], "putIndexTemplate")
                        => HasTemplate(Backend')
          /\ Len(calls[p]) >= 1 /\ IndexCheckFailed(calls[p][Len(calls[p])])
                 => /\ pc[p] = "done" /\ ret[p] = "false"
                    /\ calls'[p] = calls[p] \/ calls'[p] = <<>>]_vars

C16_Witness ==
    /\ pc[1] = "done" /\ ret[1] = "false"
    /\ IndexCheckFailed(calls[1][Len(calls[1])])
    /\ CreateOps(calls[1]) = <<"putLifecycle", "putIndexTemplate">>
    /\ snap[1].backend = EmptyBackend
    /\ policies = {LogsPolicy} /\ templates = {LogsTemplate} /\ indices = {}

(***************************************************************************)
(* C17: nothing but the invocations writes to the backend, and nothing     *)
(* deletes.  Whenever an invocation has returned true, the backend holds   *)
(* logs_policy, logs_template and the index named for the date that        *)
(* invocation computed, also when its getLifecycle or existsIndexTemplate  *)
(* was rejected on the way.                                                *)
(***************************************************************************)
\* C17: after a true return policy, template and that day's index exist
C17_TrueMeansConfigured ==
    \A p \in Callers :
        /\ ret[p] = "true" =>
               /\ HasPolicy(Backend) /\ HasTemplate(Backend)
               /\ indexName[p] # NoName /\ indexName[p] \in indices
        /\ prev[p].ret = "true" =>
               /\ HasPolicy(Backend) /\ HasTemplate(Backend)
               /\ prev[p].indexName # NoName /\ prev[p].indexName \in indices

C17_Witness ==
    \E p, q \in Callers :
        /\ p # q
        /\ ret[p] = "true" /\ ret[q] = "true"
        /\ snap[p].backend = EmptyBackend
        /\ FetchFailed(calls[p])
        /\ \E i \in 1..Len(calls[p]) : TemplateCheckFailed(calls[p][i])
        /\ indexName[p] # indexName[q]
        /\ {indexName[p], indexName[q]} \subseteq indices

====
